---- MODULE Spec2Model ----
(***************************************************************************)
(* A model of package loadsensor (dgruber/loadsensor): Create validates a  *)
(* slice of Sensor structs and wraps it in a Context; Context.Run speaks   *)
(* the Grid Engine load sensor protocol on stdin/stdout/stderr.            *)
(*                                                                         *)
(* Text is modelled as sequences of one-character strings, so that input   *)
(* splitting and output formatting are computed and not assumed.           *)
(***************************************************************************)
EXTENDS Integers, Sequences, FiniteSets, TLC

VARIABLES
    s,              \* backing array of the slice the caller hands to Create
    ctx,            \* *Context returned by Create (NIL or a Context)
    createErr,      \* error returned by Create (NoErr or its message)
    pc,             \* position of the caller / of Run
    stdin,          \* bytes written to standard input and not yet consumed
    stdinState,     \* "open", "eof" (closed after the bytes) or "err"
    line,           \* Run: result of the last stdin.ReadLine()
    stdout,         \* lines written to standard output so far
    stderr,         \* lines written to standard error so far
    idx,            \* Run: number of elements the range loop has taken
    sensor,         \* Run: the range loop's copy of the current element
    host,           \* Run: result of sensor.HostNameFunction()
    resource,       \* Run: result of sensor.ResourceNameFunction()
    exitStatus,     \* process exit status, Running while it has not exited
    calls,          \* history: every callback invocation of Run, in order
    validated,      \* history: the slice contents as Create examined them
    physLine,       \* history: bytes consumed of the input line being read
    lastInput,      \* history: the last input line consumed to its end
    nonQuitLines,   \* history: number of input lines consumed other than quit
    mutations,      \* history: writes the caller made to s after Create
    execLog,        \* history: the external commands executed so far
    lastReturn      \* what the last call of Arch or LocalHostname returned

vars == <<s, ctx, createErr, pc, stdin, stdinState, line, stdout, stderr, idx,
          sensor, host, resource, exitStatus, calls, validated, physLine,
          lastInput, nonQuitLines, mutations, execLog, lastReturn>>

----------------------------------------------------------------------------
(* Bounds of the exploration *)

\* longest slice handed to Create
MaxSensors == 2
\* most cycles (begin/end blocks) the scheduler asks for
MaxCycles == 3
\* most producer passes (cycles times producers) explored in one run
MaxPasses == 4
\* size of the bufio.Reader buffer (4096 in the program, scaled down)
BufSize == 6
\* most writes the caller makes to its slice after Create
MaxMutations == 1
\* most external commands executed by calls of Arch and LocalHostname
MaxExecs == 6

----------------------------------------------------------------------------
(* Values *)

\* a nil func value, and a nil *Context
NIL == <<"nil", 0>>
NilContext == [isNil |-> TRUE]
NoErr == "no error"
Running == -1

LF == "\n"
CR == "\r"
Colon == ":"

Quit == <<"q", "u", "i", "t">>
Begin == <<"b", "e", "g", "i", "n">>
End == <<"e", "n", "d">>

\* The three callbacks of a Sensor, in declaration order.
Fields == <<"HostNameFunction", "ResourceNameFunction", "MeasurementFunction">>

FieldTag(f) ==
    CASE f = "HostNameFunction" -> "h"
      [] f = "ResourceNameFunction" -> "r"
      [] f = "MeasurementFunction" -> "m"

\* A function value: the callback of kind f written for producer k.
Func(f, k) == <<FieldTag(f), k>>

\* The string a callback returns when it succeeds, and its error otherwise.
ValueOf(fn) == <<fn[1], ToString(fn[2])>>
ErrorOf(fn) == <<"E", fn[1], ToString(fn[2])>>

\* The outcomes of one invocation of a callback: (string, error).
CallResults(fn) ==
    { [ok |-> TRUE, val |-> ValueOf(fn), err |-> NoErr],
      [ok |-> FALSE, val |-> <<>>, err |-> ErrorOf(fn)] }

NoSensor ==
    [HostNameFunction |-> NIL, ResourceNameFunction |-> NIL,
     MeasurementFunction |-> NIL]

\* The fully specified Sensor of producer k.
FullSensor(k) ==
    [HostNameFunction |-> Func("HostNameFunction", k),
     ResourceNameFunction |-> Func("ResourceNameFunction", k),
     MeasurementFunction |-> Func("MeasurementFunction", k)]

\* Sensor k with any subset of its callbacks left nil.
SensorsOf(k) ==
    { [f \in DOMAIN NoSensor |-> IF f \in unset THEN NIL ELSE FullSensor(k)[f]] :
        unset \in SUBSET DOMAIN NoSensor }

\* The slices a caller may hand to Create: distinct producers in any order.
Slices ==
    UNION { { q \in [1..n -> UNION { SensorsOf(k) : k \in 1..MaxSensors }] :
                \A a, b \in 1..n :
                    a # b => \A f \in DOMAIN NoSensor, g \in DOMAIN NoSensor :
                        q[a][f] = NIL \/ q[b][g] = NIL \/ q[a][f][2] # q[b][g][2] }
            : n \in 0..MaxSensors }

----------------------------------------------------------------------------
(* Text helpers *)

Min(a, b) == IF a < b THEN a ELSE b

Last(q) == q[Len(q)]

DropFirst(q, n) == SubSeq(q, n + 1, Len(q))

\* Position of the first LF in q, 0 when there is none.
IndexLF(q) ==
    IF \E j \in 1..Len(q) : q[j] = LF
    THEN CHOOSE j \in 1..Len(q) : q[j] = LF /\ \A m \in 1..(j - 1) : q[m] # LF
    ELSE 0

\* An input line without its line end ("\n" or "\r\n").
StripLineEnd(q) ==
    IF Len(q) > 0 /\ Last(q) = LF
    THEN IF Len(q) > 1 /\ q[Len(q) - 1] = CR
         THEN SubSeq(q, 1, Len(q) - 2)
         ELSE SubSeq(q, 1, Len(q) - 1)
    ELSE q

----------------------------------------------------------------------------
(* stdin.ReadLine() of a bufio.Reader with a buffer of BufSize bytes *)

\* The read waits for the scheduler: no line end, room in the buffer, stream open.
ReadBlocked(buf, st) ==
    /\ IndexLF(SubSeq(buf, 1, Min(Len(buf), BufSize))) = 0
    /\ Len(buf) < BufSize
    /\ st = "open"

\* ReadSlice('\n'): how many bytes it returns and with which error.
ReadSlice(buf, st) ==
    LET j == IndexLF(SubSeq(buf, 1, Min(Len(buf), BufSize)))
    IN  IF j > 0 THEN [n |-> j, err |-> NoErr]
        ELSE IF Len(buf) >= BufSize THEN [n |-> BufSize, err |-> "ErrBufferFull"]
        ELSE [n |-> Len(buf), err |-> st]

\* ReadLine: the line returned, isPrefix, the error, and the bytes consumed (n).
ReadLine(buf, st) ==
    LET rs == ReadSlice(buf, st)
        raw == SubSeq(buf, 1, rs.n)
    IN  IF rs.err = "ErrBufferFull"
        THEN IF Last(raw) = CR
             THEN [line |-> SubSeq(raw, 1, rs.n - 1), isPrefix |-> TRUE,
                   err |-> NoErr, n |-> rs.n - 1]
             ELSE [line |-> raw, isPrefix |-> TRUE, err |-> NoErr, n |-> rs.n]
        ELSE IF rs.n = 0
        THEN [line |-> <<>>, isPrefix |-> FALSE, err |-> rs.err, n |-> 0]
        ELSE [line |-> StripLineEnd(raw), isPrefix |-> FALSE, err |-> NoErr,
              n |-> rs.n]

----------------------------------------------------------------------------
(* Create *)

\* The checks Create makes on one element of the slice, in order.
SensorErrorTwoChecks(sn) ==
    IF sn.HostNameFunction = NIL THEN "HostNameFunction is not set"
    ELSE IF sn.ResourceNameFunction = NIL THEN "ResourceNameFunction is not set"
    ELSE NoErr

SensorErrorMeasurementFirst(sn) ==
    IF sn.MeasurementFunction = NIL THEN "MeasurementFunction is not set"
    ELSE IF sn.HostNameFunction = NIL THEN "HostNameFunction is not set"
    ELSE IF sn.ResourceNameFunction = NIL THEN "ResourceNameFunction is not set"
    ELSE NoErr

SensorError(sn) ==
    IF sn.HostNameFunction = NIL THEN "HostNameFunction is not set"
    ELSE IF sn.ResourceNameFunction = NIL THEN "ResourceNameFunction is not set"
    ELSE IF sn.MeasurementFunction = NIL THEN "MeasurementFunction is not set"
    ELSE NoErr

\* The Context Create builds: its sensors field is the slice header it was
\* given, which refers to the caller's backing array s.
NewContext(sl) == [sensors |-> [array |-> "s", len |-> Len(sl)]]

RECURSIVE CreateFrom(_, _)
CreateFrom(sl, i) ==
    IF i > Len(sl) THEN [ctx |-> NewContext(sl), err |-> NoErr]
    ELSE IF SensorError(sl[i]) # NoErr THEN [ctx |-> NilContext, err |-> SensorError(sl[i])]
    ELSE CreateFrom(sl, i + 1)

Create(sl) == CreateFrom(sl, 1)

----------------------------------------------------------------------------
(* Run: output *)

Println(out, text) == Append(out, text)

\* fmt.Printf("%s:%s:%s\n", host, resource, measurement)
MeasurementLine(h, r, m) == h \o <<Colon>> \o r \o <<Colon>> \o m

ErrorDuring == <<"e", "r", "r", "o", "r", " ", "d", "u", "r", "i", "n", "g", " ">>
FunctionCall ==
    <<" ", "f", "u", "n", "c", "t", "i", "o", "n", " ", "c", "a", "l", "l", ":", " ">>
CallName(f) ==
    CASE f = "HostNameFunction" -> <<"h", "o", "s", "t", "n", "a", "m", "e">>
      [] f = "ResourceNameFunction" ->
            <<"r", "e", "s", "o", "u", "r", "c", "e", " ", "n", "a", "m", "e">>
      [] f = "MeasurementFunction" ->
            <<"m", "e", "a", "s", "u", "r", "e", "m", "e", "n", "t">>

\* fmt.Fprintf(os.Stderr, "error during ... function call: %s\n", err)
DiagnosticWithoutCause(f, e) == ErrorDuring \o CallName(f) \o FunctionCall

Diagnostic(f, e) == ErrorDuring \o CallName(f) \o FunctionCall \o e

\* fmt.Println("begin") and fmt.Println("end")
BeginOfCycleEcho(out) == Println(Println(out, Begin), line')
BeginOfCycle(out) == Println(out, Begin)
EndOfCycleMissing(out) == out
EndOfCycle(out) == Println(out, End)

\* string(line) == "quit"
IsQuitWithLineEnd(l) == l = Quit \o <<LF>>
IsQuitPrefix(l) == Len(l) >= Len(Quit) /\ SubSeq(l, 1, Len(Quit)) = Quit
IsQuit(l) == l = Quit

\* os.Exit(1) after a failed read, os.Exit(0) after quit
ExitQuit == 0
ExitReadErrorAsClean == ExitQuit
ExitReadError == 1
\* exit status of a Go program that panics
ExitPanic == 2

\* The range loop starts anew in every cycle: no element taken yet.
RangeStartStale == idx
RangeStart == 0

\* The element the range loop copies in its i-th iteration.
RangeElemReversed(i) == s[Len(s) + 1 - i]
RangeElem(i) == s[i]

\* continue: after a failed call the loop goes on behind element i of n.
ContinueAsBreak(i, n) == n
Continue(i, n) == i

\* Number of cycles started so far: the 'begin' lines on standard output.
Cycles == Cardinality({j \in DOMAIN stdout : stdout[j] = Begin})

----------------------------------------------------------------------------
(* The scheduler's side of standard input *)

Xs(n) == [j \in 1..n |-> "x"]

\* What the scheduler may write at once: the bytes, and the state of the
\* stream after them.
Chunks ==
    { [bytes |-> l \o <<LF>>, then |-> "open"] :
        l \in { <<>>, Quit, <<"Q", "U", "I", "T">>, <<"Q", "u", "i", "t">>,
                <<" ">> \o Quit, Quit \o <<" ">>, Quit \o <<"x">>, Quit \o <<CR>>,
                Quit \o <<LF>>,
                Xs(BufSize) \o Quit, Xs(BufSize) \o <<"y">>,
                Xs(BufSize - 1) \o <<CR>> } }
    \cup { [bytes |-> l, then |-> st] :
            l \in { <<>>, Quit, <<"x">>, Xs(BufSize) \o <<"y">>, Xs(BufSize) \o Quit },
            st \in {"eof", "err"} }

\* The number of cycles Run starts when it reads buf to its end.
RECURSIVE CyclesOf(_, _)
CyclesOf(buf, st) ==
    IF ReadBlocked(buf, st) THEN 0
    ELSE LET r == ReadLine(buf, st)
         IN  IF r.err # NoErr \/ IsQuit(r.line) THEN 0
             ELSE 1 + CyclesOf(DropFirst(buf, r.n), st)

NoInput == [any |-> FALSE, content |-> <<>>, terminated |-> FALSE]

----------------------------------------------------------------------------
(* Arch and LocalHostname *)

NoReturn == [val |-> <<>>, err |-> NoErr]

WhiteSpace == {" ", "\t", LF, CR}

\* strings.TrimSpace
RECURSIVE TrimSpace(_)
TrimSpace(q) ==
    IF q = <<>> THEN q
    ELSE IF q[1] \in WhiteSpace THEN TrimSpace(DropFirst(q, 1))
    ELSE IF Last(q) \in WhiteSpace THEN TrimSpace(SubSeq(q, 1, Len(q) - 1))
    ELSE q

\* What exec.Command(path).Output() may give for the arch script and for
\* the gethostname binary: the bytes of its standard output, and an error.
ExecOutputs(cmd) ==
    { [out |-> <<>>, err |-> "exec error"] }
    \cup IF cmd = "arch"
         THEN { [out |-> <<"l", "x", LF>>, err |-> NoErr],
                [out |-> <<" ", "d", "w", CR, LF>>, err |-> NoErr] }
         ELSE { [out |-> <<"n", "1", LF>>, err |-> NoErr] }

\* Arch(): runs $SGE_ROOT/util/arch. What it adds to the commands executed
\* and what it returns, given the outcome o of the command.
Arch(o) ==
    [log |-> <<[cmd |-> "arch", arg |-> <<>>]>>,
     ret |-> [val |-> TrimSpace(o.out), err |-> o.err]]

\* LocalHostname(): calls Arch, then runs $SGE_ROOT/utilbin/<arch>/gethostname.
LocalHostname(oa, oh) ==
    LET a == Arch(oa)
    IN  IF a.ret.err # NoErr THEN [log |-> a.log, ret |-> [val |-> <<>>, err |-> a.ret.err]]
        ELSE [log |-> a.log \o <<[cmd |-> "gethostname", arg |-> a.ret.val]>>,
              ret |-> [val |-> TrimSpace(oh.out), err |-> oh.err]]

----------------------------------------------------------------------------
(* The state after the caller has built its slice *)

Init ==
    /\ s \in Slices
    /\ ctx = NilContext
    /\ createErr = NoErr
    /\ pc = "main"
    /\ stdin = <<>>
    /\ stdinState = "open"
    /\ line = <<>>
    /\ stdout = <<>>
    /\ stderr = <<>>
    /\ idx = 0
    /\ sensor = NoSensor
    /\ host = <<>>
    /\ resource = <<>>
    /\ exitStatus = Running
    /\ calls = <<>>
    /\ validated = <<>>
    /\ physLine = <<>>
    /\ lastInput = NoInput
    /\ nonQuitLines = 0
    /\ mutations = 0
    /\ execLog = <<>>
    /\ lastReturn = NoReturn

osCalls == <<execLog, lastReturn>>
runLocals == <<line, idx, sensor, host, resource>>
streams == <<stdin, stdinState, stdout, stderr>>
inputHistory == <<physLine, lastInput, nonQuitLines>>

----------------------------------------------------------------------------
(* The caller *)

\* A Create that probes the first host name callback instead of comparing
\* it with nil.
CallCreateInvoking ==
    /\ pc = "main"
    /\ LET r == Create(s)
       IN  /\ ctx' = r.ctx
           /\ createErr' = r.err
           /\ pc' = IF r.err = NoErr THEN "created" ELSE "failed"
    /\ validated' = s
    /\ calls' = IF s # <<>> /\ s[1].HostNameFunction # NIL
                THEN Append(calls, [cycle |-> 0, idx |-> 1, field |-> "HostNameFunction",
                                    fn |-> s[1].HostNameFunction, ok |-> TRUE])
                ELSE calls
    /\ UNCHANGED <<osCalls, s, runLocals, streams, exitStatus, inputHistory, mutations>>

\* ctx, err := loadsensor.Create(sensors)
CallCreate ==
    /\ pc = "main"
    /\ LET r == Create(s)
       IN  /\ ctx' = r.ctx
           /\ createErr' = r.err
           /\ pc' = IF r.err = NoErr THEN "created" ELSE "failed"
    /\ validated' = s
    /\ UNCHANGED <<osCalls, s, runLocals, streams, exitStatus, calls, inputHistory,
                   mutations>>

\* The caller writes to an element of the slice it handed to Create.
CallerWrite ==
    /\ pc = "created"
    /\ mutations < MaxMutations
    /\ \E i \in 1..Len(s), f \in DOMAIN NoSensor :
        \E v \in {NIL} \cup { Func(f, k) : k \in 1..MaxSensors } :
            /\ v # s[i][f]
            /\ s' = [s EXCEPT ![i][f] = v]
    /\ mutations' = mutations + 1
    /\ UNCHANGED <<osCalls, ctx, createErr, pc, runLocals, streams, exitStatus, calls,
                   validated, inputHistory>>

\* ctx.Run(): stdin := bufio.NewReader(os.Stdin)
CallRun ==
    /\ pc = "created"
    /\ ctx # NilContext
    /\ pc' = "read"
    /\ UNCHANGED <<osCalls, s, ctx, createErr, runLocals, streams, exitStatus, calls,
                   validated, inputHistory, mutations>>

----------------------------------------------------------------------------
(* The scheduler *)

\* The scheduler writes its next chunk while Run waits in ReadLine.
SchedulerWrite ==
    /\ pc = "read"
    /\ stdin = <<>>
    /\ stdinState = "open"
    /\ \E c \in Chunks :
        /\ LET n == Cycles + CyclesOf(c.bytes, c.then)
           IN  n <= MaxCycles /\ n * ctx.sensors.len <= MaxPasses
        /\ stdin' = c.bytes
        /\ stdinState' = c.then
    /\ UNCHANGED <<osCalls, s, ctx, createErr, pc, runLocals, stdout, stderr, exitStatus,
                   calls, validated, inputHistory, mutations>>

----------------------------------------------------------------------------
(* Context.Run *)

PanicText == <<"p", "a", "n", "i", "c">>

\* The record of one callback invocation.
Call(f, fn, r) ==
    [cycle |-> Cycles, idx |-> idx, field |-> f, fn |-> fn, ok |-> r.ok]

\* Calling a nil func value panics: the process dies with a trace on stderr.
Panic ==
    /\ pc' = "panic"
    /\ exitStatus' = ExitPanic
    /\ stderr' = Append(stderr, PanicText)
    /\ UNCHANGED <<osCalls, s, ctx, createErr, stdin, stdinState, line, stdout, idx, sensor,
                   host, resource, calls, validated, inputHistory, mutations>>

\* line, _, err := stdin.ReadLine(), the two exits, and fmt.Println("begin")
RunReadLine ==
    /\ pc = "read"
    /\ ~ReadBlocked(stdin, stdinState)
    /\ LET r == ReadLine(stdin, stdinState)
           consumed == SubSeq(stdin, 1, r.n)
           acc == physLine \o consumed
           complete ==
               IF r.n > 0 /\ Last(consumed) = LF THEN "lf"
               ELSE IF (r.n > 0 /\ ~r.isPrefix) \/ (r.n = 0 /\ acc # <<>>) THEN "eos"
               ELSE "no"
       IN  /\ stdin' = DropFirst(stdin, r.n)
           /\ line' = r.line
           /\ IF complete = "no"
              THEN /\ physLine' = acc
                   /\ UNCHANGED <<lastInput, nonQuitLines>>
              ELSE /\ physLine' = <<>>
                   /\ lastInput' = [any |-> TRUE, content |-> StripLineEnd(acc),
                                    terminated |-> (complete = "lf")]
                   /\ nonQuitLines' =
                        IF StripLineEnd(acc) # Quit THEN nonQuitLines + 1
                        ELSE nonQuitLines
           /\ IF r.err # NoErr
              THEN /\ pc' = "exited"
                   /\ exitStatus' = ExitReadError
                   /\ UNCHANGED <<stdout, idx>>
              ELSE IF IsQuit(r.line)
              THEN /\ pc' = "exited"
                   /\ exitStatus' = ExitQuit
                   /\ UNCHANGED <<stdout, idx>>
              ELSE /\ stdout' = BeginOfCycle(stdout)
                   /\ idx' = RangeStart
                   /\ pc' = "range"
                   /\ UNCHANGED exitStatus
    /\ UNCHANGED <<osCalls, s, ctx, createErr, stdinState, stderr, sensor, host, resource,
                   calls, validated, mutations>>

\* for _, sensor := range ctx.sensors, and fmt.Println("end") behind the loop
RunRange ==
    /\ pc = "range"
    /\ IF idx < ctx.sensors.len
       THEN /\ idx' = idx + 1
            /\ sensor' = RangeElem(idx + 1)
            /\ pc' = "host"
            /\ UNCHANGED stdout
       ELSE /\ stdout' = EndOfCycle(stdout)
            /\ pc' = "read"
            /\ UNCHANGED <<idx, sensor>>
    /\ UNCHANGED <<osCalls, s, ctx, createErr, stdin, stdinState, line, stderr, host,
                   resource, exitStatus, calls, validated, inputHistory, mutations>>

\* host, errHost := sensor.HostNameFunction()
RunHostName ==
    /\ pc = "host"
    /\ IF sensor.HostNameFunction = NIL THEN Panic
       ELSE \E r \in CallResults(sensor.HostNameFunction) :
            /\ calls' = Append(calls, Call("HostNameFunction", sensor.HostNameFunction, r))
            /\ IF r.ok
               THEN /\ host' = r.val
                    /\ pc' = "resource"
                    /\ UNCHANGED <<stderr, idx>>
               ELSE /\ stderr' = Append(stderr, Diagnostic("HostNameFunction", r.err))
                    /\ idx' = Continue(idx, ctx.sensors.len)
                    /\ pc' = "range"
                    /\ UNCHANGED host
            /\ UNCHANGED <<osCalls, s, ctx, createErr, stdin, stdinState, line, stdout, sensor,
                           resource, exitStatus, validated, inputHistory, mutations>>

\* resource, errResource := sensor.ResourceNameFunction()
RunResourceName ==
    /\ pc = "resource"
    /\ IF sensor.ResourceNameFunction = NIL THEN Panic
       ELSE \E r \in CallResults(sensor.ResourceNameFunction) :
            /\ calls' = Append(calls, Call("ResourceNameFunction",
                                            sensor.ResourceNameFunction, r))
            /\ IF r.ok
               THEN /\ resource' = r.val
                    /\ pc' = "measurement"
                    /\ UNCHANGED <<stderr, idx>>
               ELSE /\ stderr' = Append(stderr, Diagnostic("ResourceNameFunction", r.err))
                    /\ idx' = Continue(idx, ctx.sensors.len)
                    /\ pc' = "range"
                    /\ UNCHANGED resource
            /\ UNCHANGED <<osCalls, s, ctx, createErr, stdin, stdinState, line, stdout, sensor,
                           host, exitStatus, validated, inputHistory, mutations>>

\* measurement, errMeasurement := sensor.MeasurementFunction(), and the Printf
RunMeasurement ==
    /\ pc = "measurement"
    /\ IF sensor.MeasurementFunction = NIL THEN Panic
       ELSE \E r \in CallResults(sensor.MeasurementFunction) :
            /\ calls' = Append(calls, Call("MeasurementFunction",
                                            sensor.MeasurementFunction, r))
            /\ IF r.ok
               THEN /\ stdout' = Println(stdout, MeasurementLine(host, resource, r.val))
                    /\ UNCHANGED <<stderr, idx>>
               ELSE /\ stderr' = Append(stderr, Diagnostic("MeasurementFunction", r.err))
                    /\ idx' = Continue(idx, ctx.sensors.len)
                    /\ UNCHANGED stdout
            /\ pc' = "range"
            /\ UNCHANGED <<osCalls, s, ctx, createErr, stdin, stdinState, line, sensor, host,
                           resource, exitStatus, validated, inputHistory, mutations>>

----------------------------------------------------------------------------
(* Specifications *)

\* A caller that leaves its slice alone after Create, as examples/simple does.
Next ==
    \/ CallCreate
    \/ CallRun
    \/ SchedulerWrite
    \/ RunReadLine
    \/ RunRange
    \/ RunHostName
    \/ RunResourceName
    \/ RunMeasurement

Spec == Init /\ [][Next]_vars

\* A caller that may also write to its slice between Create and Run.
NextAliased == Next \/ CallerWrite

SpecAliased == Init /\ [][NextAliased]_vars

\* The steps of Run; its position enables at most one of them.
RunStep ==
    \/ RunReadLine
    \/ RunRange
    \/ RunHostName
    \/ RunResourceName
    \/ RunMeasurement

\* The lines that differ in what Run does next: an empty line, quit, a line
\* longer than the buffer, and the ends of the stream with and without
\* pending bytes.
LiveChunks ==
    { c \in Chunks :
        \/ c.then = "open" /\ c.bytes \in { <<LF>>, Quit \o <<LF>>,
                                             Xs(BufSize) \o <<"y", LF>> }
        \/ c.then = "eof" /\ c.bytes \in { <<>>, <<"x">> }
        \/ c.then = "err" /\ c.bytes = <<>> }

\* The scheduler writing one of these lines.
SchedulerWriteLive ==
    /\ SchedulerWrite
    /\ \E c \in LiveChunks : stdin' = c.bytes /\ stdinState' = c.then

NextLive ==
    \/ CallCreate
    \/ CallRun
    \/ SchedulerWriteLive
    \/ RunStep

\* Run is scheduled again and again, and every callback it invokes returns.
SpecLive == Init /\ [][NextLive]_vars /\ WF_vars(RunStep)

others ==
    <<s, ctx, createErr, pc, stdin, stdinState, line, stdout, stderr, idx, sensor,
      host, resource, exitStatus, calls, validated, physLine, lastInput,
      nonQuitLines, mutations>>

\* A call of Arch(), by a callback or by the caller.
CallArch ==
    /\ Len(execLog) < MaxExecs
    /\ \E o \in ExecOutputs("arch") :
        /\ execLog' = execLog \o Arch(o).log
        /\ lastReturn' = Arch(o).ret
    /\ UNCHANGED others

\* A call of LocalHostname(), as the host name callback of examples/simple.
CallLocalHostname ==
    /\ Len(execLog) + 1 < MaxExecs
    /\ \E oa \in ExecOutputs("arch"), oh \in ExecOutputs("gethostname") :
        /\ execLog' = execLog \o LocalHostname(oa, oh).log
        /\ lastReturn' = LocalHostname(oa, oh).ret
    /\ UNCHANGED others

\* Calls of Arch and LocalHostname during one run of a load sensor.
InitArch == Init /\ s = <<>>

NextArch == CallArch \/ CallLocalHostname

SpecArch == InitArch /\ [][NextArch]_vars

----------------------------------------------------------------------------
(* Reading the histories *)

Count(q, x) == Cardinality({j \in DOMAIN q : q[j] = x})

Contains(q, sub) ==
    \E j \in 1..(Len(q) - Len(sub) + 1) : SubSeq(q, j, j + Len(sub) - 1) = sub

HasSuffix(q, sub) ==
    Len(q) >= Len(sub) /\ SubSeq(q, Len(q) - Len(sub) + 1, Len(q)) = sub

\* Position on standard output of the 'begin' of cycle c, and the lines
\* written from there up to the next 'begin'.
BeginPos(c) ==
    CHOOSE j \in DOMAIN stdout :
        stdout[j] = Begin /\ Count(SubSeq(stdout, 1, j), Begin) = c

Block(c) ==
    SubSeq(stdout, BeginPos(c),
           IF c < Cycles THEN BeginPos(c + 1) - 1 ELSE Len(stdout))

\* Cycle c has been run to its end.
Completed(c) == c < Cycles \/ (c = Cycles /\ pc \in {"read", "exited"})

CallsIn(c) == {j \in DOMAIN calls : calls[j].cycle = c}

\* The callbacks of the k-th Sensor handed to Create.
FuncsOf(k) == {validated[k][f] : f \in DOMAIN NoSensor}

\* Producer k was invoked in cycle c, failed in it, succeeded in all three calls.
Invoked(c, k) ==
    Cardinality({j \in CallsIn(c) : calls[j].fn = validated[k].HostNameFunction}) = 1

Failed(c, k) == \E j \in CallsIn(c) : calls[j].fn \in FuncsOf(k) /\ ~calls[j].ok

AllSucceeded(c, k) ==
    /\ ~Failed(c, k)
    /\ \A f \in DOMAIN NoSensor :
        \E j \in CallsIn(c) :
            calls[j].field = f /\ calls[j].fn = validated[k][f] /\ calls[j].ok

\* The line 'host:resource:measurement' of producer k.
LineOf(k) ==
    ValueOf(validated[k].HostNameFunction) \o <<Colon>>
        \o ValueOf(validated[k].ResourceNameFunction) \o <<Colon>>
        \o ValueOf(validated[k].MeasurementFunction)

\* The lines of the producers from k on that fully succeeded in cycle c,
\* in registration order.
RECURSIVE LinesFrom(_, _)
LinesFrom(c, k) ==
    IF k > Len(validated) THEN <<>>
    ELSE (IF AllSucceeded(c, k) THEN <<LineOf(k)>> ELSE <<>>) \o LinesFrom(c, k + 1)

----------------------------------------------------------------------------
(* C1: framing *)

\* out, read from line j on with a block open or not, is a prefix of a
\* concatenation of blocks 'begin', measurement lines, 'end'.
RECURSIVE Framed(_, _, _)
Framed(out, j, open) ==
    IF j > Len(out) THEN TRUE
    ELSE IF out[j] = Begin THEN ~open /\ Framed(out, j + 1, TRUE)
    ELSE IF out[j] = End THEN open /\ Framed(out, j + 1, FALSE)
    ELSE open /\ Framed(out, j + 1, open)

\* C1: at all times standard output is a prefix of a concatenation of
\* blocks, each one line 'begin', then measurement lines, then one line 'end':
\* no 'begin' inside an open block, no measurement line outside a block.
C1_Framing == Framed(stdout, 1, FALSE)

\* Two cycles were run, with a measurement line written and a producer failed.
C1_Witness ==
    /\ pc = "read"
    /\ Cycles >= 2
    /\ stderr # <<>>
    /\ \E j \in DOMAIN stdout : stdout[j] \notin {Begin, End}

----------------------------------------------------------------------------
(* C2: failure isolation *)

\* C2: in every cycle a producer that failed on one of its calls has no line
\* in the block of that cycle, a producer whose three calls succeeded has
\* exactly one, and once the cycle is over every producer has been invoked,
\* whatever happened to the producers before it.
C2_FailureIsolation ==
    \A c \in 1..Cycles :
        LET block == Block(c)
        IN  \A k \in DOMAIN validated :
                LET failed == Failed(c, k)
                    succeeded == AllSucceeded(c, k)
                    lines == Count(block, LineOf(k))
                IN  /\ failed => lines = 0
                    /\ succeeded => lines = 1
                    /\ Completed(c) => Invoked(c, k) /\ (failed \/ succeeded)

\* A cycle is over in which the first producer failed and the second wrote
\* its line.
C2_Witness ==
    /\ Len(validated) = 2
    /\ \E c \in 1..Cycles :
        Completed(c) /\ Failed(c, 1) /\ AllSucceeded(c, 2)
            /\ Count(Block(c), LineOf(2)) = 1

----------------------------------------------------------------------------
(* C3: order preservation *)

\* C3: the block of every finished cycle is 'begin', the lines of the
\* producers that fully succeeded in the order of the slice given to Create,
\* and 'end'; with all callbacks succeeding that is one line per producer.
C3_OrderPreserved ==
    \A c \in 1..Cycles :
        Completed(c) => Block(c) = <<Begin>> \o LinesFrom(c, 1) \o <<End>>

\* A cycle is over in which two producers wrote their lines.
C3_Witness ==
    /\ Len(validated) = 2
    /\ \E c \in 1..Cycles :
        Completed(c) /\ AllSucceeded(c, 1) /\ AllSucceeded(c, 2)
            /\ Block(c) = <<Begin, LineOf(1), LineOf(2), End>>

----------------------------------------------------------------------------
(* C4: shutdown *)

\* C4: when the line ReadLine returns is exactly 'quit', after any number of
\* cycles, the process exits with status 0 in that step, without writing to
\* standard output and without invoking a callback; and once the process has
\* exited nothing happens any more: no line is written, no callback is
\* invoked, and input that follows is left unread.
C4_Shutdown ==
    [][ /\ (pc = "read" /\ pc' # "read" /\ line' = Quit)
            => /\ pc' = "exited"
               /\ exitStatus' = 0
               /\ stdout' = stdout
               /\ calls' = calls
        /\ pc = "exited" => UNCHANGED vars ]_vars

\* The process has exited with status 0 after a cycle, with input behind the
\* 'quit' still unread.
C4_Witness ==
    /\ pc = "exited"
    /\ exitStatus = 0
    /\ line = Quit
    /\ Cycles >= 1
    /\ stdin # <<>>
    /\ Last(stdout) = End

----------------------------------------------------------------------------
(* C5: end of stream *)

\* C5: when Run reads with no byte pending and the stream at its end or in
\* error, the process exits in that step with status 1, which is not the
\* status of a clean exit, without writing to standard output and without
\* invoking a callback.
C5_EndOfStream ==
    [][ (pc = "read" /\ pc' # "read" /\ stdin = <<>> /\ stdinState # "open")
            => /\ pc' = "exited"
               /\ exitStatus' = 1
               /\ exitStatus' # ExitQuit
               /\ stdout' = stdout
               /\ stderr' = stderr
               /\ calls' = calls ]_vars

\* The process has exited with status 1 at the end of the stream, after a cycle.
C5_Witness ==
    /\ pc = "exited"
    /\ exitStatus = 1
    /\ stdinState = "eof"
    /\ stdin = <<>>
    /\ Cycles >= 1

----------------------------------------------------------------------------
(* C6: construction validation *)

MissingCallback(sl) ==
    \E j \in DOMAIN sl : \E f \in DOMAIN NoSensor : sl[j][f] = NIL

\* C6: Create returns an error and a nil Context exactly when some Sensor of
\* the slice has a nil callback; for every other slice, the empty one
\* included, it returns a Context and no error.
C6_CreateValidates ==
    pc # "main" =>
        /\ MissingCallback(s) <=> (createErr # NoErr /\ ctx = NilContext)
        /\ ~MissingCallback(s) => (createErr = NoErr /\ ctx # NilContext)

\* Create has refused a slice whose only nil callback is the
\* MeasurementFunction of its last element.
C6_Witness ==
    /\ pc = "failed"
    /\ Len(s) = 2
    /\ s[2].MeasurementFunction = NIL
    /\ s[2].HostNameFunction # NIL
    /\ s[2].ResourceNameFunction # NIL
    /\ ~MissingCallback(SubSeq(s, 1, 1))
    /\ createErr # NoErr
    /\ ctx = NilContext

----------------------------------------------------------------------------
(* C7: the Context and the caller's slice *)

\* C7: whatever the caller writes to its slice after Create has returned,
\* Run invokes the callbacks Create examined and no others, so it never
\* calls a nil func value.
C7_DefensiveCopy ==
    /\ pc # "panic"
    /\ \A j \in DOMAIN calls :
        calls[j].fn = validated[calls[j].idx][calls[j].field]

----------------------------------------------------------------------------
(* C8: the shutdown command is matched exactly *)

\* C8: the step that consumes an input line to its end exits with status 0
\* if the content of the line without its line end is exactly 'quit', and
\* starts a cycle if the content differs from 'quit' in any way; and a step
\* exits with status 0 only if it consumed the end of a line that is exactly
\* 'quit'.
C8_ExactQuit ==
    [][ (pc = "read" /\ pc' # "read")
        => /\ (stdin' # stdin /\ physLine' = <<>>)
                => IF lastInput'.content = Quit
                   THEN pc' = "exited" /\ exitStatus' = 0
                   ELSE pc' = "range" /\ exitStatus' = Running
           /\ exitStatus' = 0
                => /\ stdin' # stdin
                   /\ physLine' = <<>>
                   /\ lastInput'.content = Quit ]_vars

----------------------------------------------------------------------------
(* C9: one cycle per input line *)

\* C9: whenever Run is between two cycles or has exited, with no input line
\* consumed in part, the number of blocks written is the number of input
\* lines other than 'quit' consumed so far, whatever their length (a last
\* line cut short by the end of the stream counted as a line); and the
\* process has not taken a piece of a longer line for the 'quit' command.
C9_OneCyclePerLine ==
    /\ (pc \in {"read", "exited"} /\ physLine = <<>>) => Cycles = nonQuitLines
    /\ exitStatus = 0 => lastInput.any /\ lastInput.content = Quit

----------------------------------------------------------------------------
(* C10: diagnostics *)

FailedCalls == SelectSeq(calls, LAMBDA c : ~c.ok)

\* C10: standard error holds one line for every failed call, in order, which
\* names the call and ends with the error returned; a producer fails at most
\* once in a cycle, so it has one diagnostic if it failed and none if it
\* succeeded; and every line on standard output is 'begin', 'end' or the
\* line of a producer, never diagnostic text.
C10_Diagnostics ==
    /\ LET failed == FailedCalls
       IN  /\ Len(stderr) = Len(failed)
           /\ \A j \in DOMAIN stderr :
                /\ SubSeq(stderr[j], 1, Len(ErrorDuring)) = ErrorDuring
                /\ Contains(stderr[j], CallName(failed[j].field))
                /\ HasSuffix(stderr[j], ErrorOf(failed[j].fn))
    /\ \A c \in 1..Cycles : \A k \in DOMAIN validated :
        /\ Cardinality({j \in CallsIn(c) :
                            calls[j].fn \in FuncsOf(k) /\ ~calls[j].ok}) <= 1
        /\ AllSucceeded(c, k) =>
            \A j \in CallsIn(c) : calls[j].fn \in FuncsOf(k) => calls[j].ok
    /\ LET lines == {Begin, End} \cup {LineOf(k) : k \in DOMAIN validated}
       IN  \A j \in DOMAIN stdout :
                /\ stdout[j] \in lines
                /\ ~Contains(stdout[j], ErrorDuring)

\* The first cycle is over: the first producer wrote its line, the
\* measurement call of the second failed, and standard error has one line.
C10_Witness ==
    /\ Len(validated) = 2
    /\ Cycles = 1
    /\ Completed(1)
    /\ AllSucceeded(1, 1)
    /\ \E j \in CallsIn(1) :
        calls[j].fn = validated[2].MeasurementFunction /\ ~calls[j].ok
    /\ Len(stderr) = 1
    /\ stdout = <<Begin, LineOf(1), End>>

----------------------------------------------------------------------------
(* C11: no other exit paths *)

InRun == {"read", "range", "host", "resource", "measurement"}

----------------------------------------------------------------------------
(* C13: the sequence of callback invocations *)

CycleCalls(c) == SelectSeq(calls, LAMBDA x : x.cycle = c)

\* Reads the calls cs from position j on, expecting next the call number fi
\* (1 host name, 2 resource name, 3 measurement) of producer k: whether
\* every call is the expected one, and which call is expected behind them.
RECURSIVE CallsEnd(_, _, _, _)
CallsEnd(cs, j, k, fi) ==
    IF j > Len(cs) THEN [ok |-> TRUE, k |-> k, fi |-> fi]
    ELSE IF \/ k > Len(validated)
            \/ cs[j].idx # k
            \/ cs[j].field # Fields[fi]
            \/ cs[j].fn # validated[k][Fields[fi]]
         THEN [ok |-> FALSE, k |-> k, fi |-> fi]
    ELSE IF cs[j].ok /\ fi < 3 THEN CallsEnd(cs, j + 1, k, fi + 1)
    ELSE CallsEnd(cs, j + 1, k + 1, 1)

\* C13: in every cycle the invocations are, producer by producer in
\* registration order, the host name callback once, then the resource name
\* callback only after a successful host name call, then the measurement
\* callback only after two successful calls; a failed call is followed by
\* the host name callback of the next producer; and a finished cycle has
\* gone through every producer.
C13_CallSequence ==
    [](/\ \A j \in 1..(Len(calls) - 1) : calls[j].cycle <= calls[j + 1].cycle
       /\ \A c \in 1..Cycles :
            LET e == CallsEnd(CycleCalls(c), 1, 1, 1)
            IN  /\ e.ok
                /\ Completed(c) => (e.k = Len(validated) + 1 /\ e.fi = 1)
                /\ (c = Cycles /\ pc = "host") => (e.k = idx /\ e.fi = 1)
                /\ (c = Cycles /\ pc = "resource") => (e.k = idx /\ e.fi = 2)
                /\ (c = Cycles /\ pc = "measurement") => (e.k = idx /\ e.fi = 3))

\* A cycle is over in which the resource name call of the first producer
\* failed and the second producer was called three times.
C13_Witness ==
    /\ Len(validated) = 2
    /\ Completed(1)
    /\ Len(CycleCalls(1)) = 5
    /\ CycleCalls(1)[2].field = "ResourceNameFunction"
    /\ ~CycleCalls(1)[2].ok
    /\ CycleCalls(1)[3].fn = validated[2].HostNameFunction
    /\ CycleCalls(1)[5].ok

----------------------------------------------------------------------------
(* C15: request and response alternate *)

\* C15: a step that consumes input is taken while Run waits for a line, with
\* every block on standard output closed, invokes no callback and writes at
\* most 'begin'; every callback invocation and every other line written
\* belongs to the cycle of the last line read and happens without input being
\* consumed; and the step that starts a cycle writes 'begin' and nothing
\* else, whatever the line holds.
C15_Alternation ==
    [][ /\ Len(stdin') < Len(stdin)
            => /\ pc = "read"
               /\ stdout = <<>> \/ Last(stdout) = End
               /\ calls' = calls
               /\ stdout' = stdout \/ stdout' = Append(stdout, Begin)
        /\ (calls' # calls \/ (stdout' # stdout /\ pc # "read"))
            => /\ pc \in InRun \ {"read"}
               /\ stdin' = stdin
               /\ line' = line
               /\ Cycles >= 1
               /\ Count(SubSeq(stdout, BeginPos(Cycles), Len(stdout)), End) = 0
               /\ calls' # calls => Last(calls').cycle = Cycles
        /\ (pc = "read" /\ pc' = "range") => stdout' = Append(stdout, Begin) ]_vars

\* The third cycle runs, started by a line other than the empty line, after
\* two finished cycles.
C15_Witness ==
    /\ pc = "measurement"
    /\ Cycles = 3
    /\ line # <<>>
    /\ Count(stdout, End) = 2
    /\ stdin = <<>>

----------------------------------------------------------------------------
(* C18: the degenerate engine *)

\* C18: the block of every finished cycle of a Context made from the empty
\* slice, and of every finished cycle in which every producer failed, is
\* 'begin' followed at once by 'end'.
C18_EmptyBlock ==
    \A c \in 1..Cycles :
        (Completed(c) /\ \A k \in DOMAIN validated : Failed(c, k))
            => Block(c) = <<Begin, End>>

\* Two cycles are over in which both producers failed.
C18_Witness ==
    /\ Len(validated) = 2
    /\ Cycles = 2
    /\ pc = "read"
    /\ \A c \in 1..2 : \A k \in 1..2 : Failed(c, k)
    /\ stdout = <<Begin, End, Begin, End>>

\* Two cycles of a Context made from the empty slice are over.
C18_WitnessEmptySlice ==
    /\ pc = "read"
    /\ ctx # NilContext
    /\ validated = <<>>
    /\ stdout = <<Begin, End, Begin, End>>

----------------------------------------------------------------------------
(* C20: Create reports the first violation *)

NotSetMessage(f) ==
    CASE f = "HostNameFunction" -> "HostNameFunction is not set"
      [] f = "ResourceNameFunction" -> "ResourceNameFunction is not set"
      [] f = "MeasurementFunction" -> "MeasurementFunction is not set"

\* The nil callbacks of sl as pairs <<element, number of the callback>>, and
\* the first of them in scan order.
NilPositions(sl) ==
    {p \in (DOMAIN sl) \X (1..3) : sl[p[1]][Fields[p[2]]] = NIL}

FirstNil(sl) ==
    CHOOSE p \in NilPositions(sl) :
        \A q \in NilPositions(sl) :
            p[1] < q[1] \/ (p[1] = q[1] /\ p[2] <= q[2])

\* C20: the error Create returns names the first nil callback in scan order,
\* elements in slice order and within an element host name, resource name,
\* measurement, whatever is nil behind it.
C20_FirstViolation ==
    pc = "failed" =>
        /\ NilPositions(s) # {}
        /\ createErr = NotSetMessage(Fields[FirstNil(s)[2]])

\* Create has refused a slice whose first element lacks only its
\* MeasurementFunction and whose second element lacks its HostNameFunction.
C20_Witness ==
    /\ pc = "failed"
    /\ Len(s) = 2
    /\ s[1].HostNameFunction # NIL
    /\ s[1].ResourceNameFunction # NIL
    /\ s[1].MeasurementFunction = NIL
    /\ s[2].HostNameFunction = NIL
    /\ createErr = "MeasurementFunction is not set"

----------------------------------------------------------------------------
(* C16: no memory across cycles *)

\* The callbacks invoked in cycle c with their outcomes, in order.
ResultsOf(c) ==
    LET cs == CycleCalls(c)
    IN  [j \in DOMAIN cs |-> <<cs[j].fn, cs[j].ok>>]

\* C16: while Run runs, the Context and its sensors stay as Create left
\* them; in every finished cycle every producer is invoked again, whatever
\* failed in the cycles before, and writes its line if its three calls
\* succeed; and two finished cycles with the same callback results have
\* identical blocks.
C16_NoCrossCycleMemory ==
    [](/\ pc \in InRun \cup {"exited"} =>
            (s = validated /\ ctx = NewContext(validated))
       /\ \A c2 \in 1..Cycles :
            Completed(c2) =>
                LET block == Block(c2)
                    results == ResultsOf(c2)
                IN  /\ \A k \in DOMAIN validated :
                        /\ Invoked(c2, k)
                        /\ AllSucceeded(c2, k) => Count(block, LineOf(k)) = 1
                    /\ \A c1 \in 1..(c2 - 1) :
                        ResultsOf(c1) = results => Block(c1) = block)

\* The second cycle is over: the first producer, which failed in the first
\* cycle, has written its line in the second.
C16_Witness ==
    /\ Len(validated) = 2
    /\ Cycles = 2
    /\ Completed(2)
    /\ Failed(1, 1)
    /\ AllSucceeded(2, 1)
    /\ Count(Block(2), LineOf(1)) = 1
    /\ Count(Block(1), LineOf(1)) = 0

----------------------------------------------------------------------------
(* C17: Create has no side effects *)

\* C17: the step of Create invokes no callback, writes nothing to standard
\* output or standard error, consumes no input and leaves the slice as it
\* was, whether it succeeds or fails; a callback is invoked only by Run, in a
\* step taken inside an open block.
C17_CreateIsPure ==
    [][ /\ pc = "main"
            => /\ calls' = calls
               /\ stdout' = stdout
               /\ stderr' = stderr
               /\ stdin' = stdin
               /\ stdinState' = stdinState
               /\ s' = s
        /\ calls' # calls
            => /\ pc \in {"host", "resource", "measurement"}
               /\ Cycles >= 1
               /\ Last(stdout) # End ]_vars

\* Create has refused a slice after it examined a fully specified first
\* element: no callback was invoked and nothing was written.
C17_Witness ==
    /\ pc = "failed"
    /\ Len(s) = 2
    /\ SensorError(s[1]) = NoErr
    /\ s = validated
    /\ calls = <<>>
    /\ stdout = <<>>
    /\ stderr = <<>>

----------------------------------------------------------------------------
(* C19: a last line without line end *)

\* The bytes pending are the whole of a last line that has no line end.
LastLinePending ==
    /\ pc = "read"
    /\ stdinState # "open"
    /\ stdin # <<>>
    /\ IndexLF(stdin) = 0

\* C19: when the stream ends behind a line without line end, the read
\* returns that line before the end of the stream is acted on: the process
\* exits with status 0 if the line is exactly 'quit', and otherwise starts
\* the one cycle of that line, with nothing of the line left to read, so that
\* the next read exits with status 1; status 0 is never the answer to a last
\* line other than 'quit', and status 1 only to a read that finds no byte.
C19_UnterminatedLastLine ==
    [][ /\ (LastLinePending /\ physLine = <<>> /\ pc' # "read")
            => IF stdin = Quit
               THEN pc' = "exited" /\ exitStatus' = 0
               ELSE /\ pc' = "range"
                    /\ stdout' = Append(stdout, Begin)
                    /\ stdin' = <<>>
        /\ (LastLinePending /\ pc' # "read" /\ exitStatus' = 0)
            => physLine \o stdin = Quit
        /\ (exitStatus' = 1 /\ exitStatus # 1)
            => (stdin = <<>> /\ stdinState # "open") ]_vars

----------------------------------------------------------------------------
(* C12: Arch executes the arch script once *)

\* C12: over any sequence of calls of Arch and LocalHostname in one run the
\* arch script is executed at most once.
C12_ArchCached ==
    Cardinality({j \in DOMAIN execLog : execLog[j].cmd = "arch"}) <= 1

----------------------------------------------------------------------------
(* C14: every started cycle completes *)

\* The next line ReadLine returns is 'quit'.
QuitNext ==
    /\ ~ReadBlocked(stdin, stdinState)
    /\ ReadLine(stdin, stdinState).err = NoErr
    /\ ReadLine(stdin, stdinState).line = Quit

\* C14: with every callback returning, a cycle in progress leads to its
\* 'end' written and Run waiting for the next line, whatever succeeds or
\* fails; and once the input holds 'quit' as its next line, or has ended,
\* Run leads to the exit of the process.
C14_CyclesComplete ==
    /\ (pc \in InRun \ {"read"}) ~> (pc = "read" /\ stdout # <<>> /\ Last(stdout) = End)
    /\ (pc \in InRun /\ QuitNext) ~> (pc = "exited" /\ exitStatus = 0)
    /\ (pc \in InRun /\ stdinState # "open") ~> (pc = "exited")

\* Run waits for a line again after a cycle in which both producers failed,
\* with the stream at its end.
C14_Witness ==
    /\ pc = "read"
    /\ Len(validated) = 2
    /\ Cycles = 1
    /\ Len(stderr) = 2
    /\ stdinState = "eof"
    /\ stdin = <<>>

====
